---- MODULE Spec2Model ----
(***************************************************************************)
(* Model of fabfile.py: batch management of git repositories found in the  *)
(* immediate sub-directories of the current directory (fetch, pull and     *)
(* state check), and the docker-compose / maven batch modes.               *)
(*                                                                         *)
(* Text is modelled as a sequence of tokens: a branch name is a sequence   *)
(* of characters, a remote name and the punctuation of a formatted string  *)
(* are single tokens.  Python's `a in b` on strings is IsSubstring.        *)
(*                                                                         *)
(* The tasks that only print (list_repos, list_docker_repos,               *)
(* list_mvn_repos) and the task `git`, which chains the git tasks, are     *)
(* left out; the maven profile, which only changes the command line, is    *)
(* left out.                                                               *)
(***************************************************************************)
EXTENDS Integers, Sequences, FiniteSets, TLC

VARIABLES task, fs, pc, phases, idx, handed, attempted, cur, cmdCount, msgs

vars == <<task, fs, pc, phases, idx, handed, attempted, cur, cmdCount, msgs>>

(***************************************************************************)
(* Bounds                                                                  *)
(***************************************************************************)
\* number of immediate sub-directories of the current directory
MaxDirs == 2
\* number of commits one branch has and the other has not
MaxCommits == 2

(***************************************************************************)
(* Text                                                                    *)
(***************************************************************************)
None == <<>>

IsSubstring(p, s) ==
    \E i \in 0..(Len(s) - Len(p)) : SubSeq(s, i + 1, i + Len(p)) = p

\* Python's `x or y` on an optional string
Or(x, y) == IF x = None THEN y ELSE x

\* remote name used when the repository has no remote
DEFAULT_GIT_REMOTE_NAME == <<"origin">>

\* GitPython: Repo.remote(name='origin')
GitPythonDefaultRemote == <<"origin">>

OtherRemote == <<"upstream">>

RemoteNames == {GitPythonDefaultRemote, OtherRemote}

RemoteSets == SUBSET RemoteNames

Branches == {<<"m">>, <<"m", "2">>}

\* f'{remote_name}/{branch}'
RemoteRef(remote_name, branch) == remote_name \o <<"/">> \o branch

(***************************************************************************)
(* The state of one repository, as GitPython reports it                    *)
(***************************************************************************)
NoUpstream == [remote |-> None, branch |-> None]

UpstreamConfigs ==
    {NoUpstream} \cup [remote : RemoteNames, branch : Branches]

\* the references the model tells apart: local heads and the refs of origin
AllRefs == Branches \cup {RemoteRef(GitPythonDefaultRemote, b) : b \in Branches}

IsRemoteRefName(ref) == IsSubstring(<<"/">>, ref)

RepoStates ==
    {r \in [detached : BOOLEAN, dirty : BOOLEAN, active : Branches \cup {None},
            remotes : RemoteSets, upstream : UpstreamConfigs,
            refs : SUBSET AllRefs] :
        \* a detached HEAD has no active branch and no branch configuration
        /\ r.detached <=> (r.active = None)
        /\ r.detached => r.upstream = NoUpstream
        \* the checked-out branch is one of the references
        /\ ~r.detached => r.active \in r.refs
        \* an upstream names a configured remote; of the upstreams on a remote
        \* other than origin, the one of the same branch name stands for all
        /\ r.upstream # NoUpstream => r.upstream.remote \in r.remotes
        /\ r.upstream.remote = OtherRemote => r.upstream.branch = r.active
        \* remote references belong to a configured remote
        /\ (\E ref \in r.refs : IsRemoteRefName(ref))
              => GitPythonDefaultRemote \in r.remotes}

(***************************************************************************)
(* GitPython queries                                                       *)
(***************************************************************************)
\* repo.is_dirty(untracked_files=True)
is_dirty(repo) == repo.dirty

\* GitPython, Repo.remote(name='origin'): "return: Remote with the specified
\* name; raise ValueError: if no remote with such a name exists".  The call
\* never returns None, so the name it yields is always 'origin'.
remote_raises(repo) == GitPythonDefaultRemote \notin repo.remotes

remote(repo) == [name |-> GitPythonDefaultRemote]

\* a Remote object is never falsy
NoRemote == [name |-> None]

\* repo.git.status('-sb'): the branch header, then one line per changed file
status_sb(repo) ==
    <<"## ">>
    \o (IF repo.detached THEN <<"HEAD (no branch)">> ELSE repo.active)
    \o (IF repo.upstream = NoUpstream THEN <<>>
        ELSE <<"...">> \o RemoteRef(repo.upstream.remote, repo.upstream.branch))
    \o (IF repo.dirty THEN <<"\n?? file">> ELSE <<>>)

(***************************************************************************)
(* Git helper functions                                                    *)
(***************************************************************************)
_is_repo_head_detached(repo) == repo.detached

_has_branch(repo, branch) == \E ref \in repo.refs : ref = branch

_has_remote_branch(remote_name, repo) ==
    IF _is_repo_head_detached(repo) THEN FALSE
    ELSE LET remote_branch_name == RemoteRef(remote_name, repo.active)
         IN  \E ref \in repo.refs : ref = remote_branch_name

\* the value returned when Repo.remote() does not raise
_get_remote_name(repo) ==
    LET r == remote(repo)
    IN  IF r # NoRemote THEN r.name ELSE DEFAULT_GIT_REMOTE_NAME

\* _is_tracking_remote_branch raises when the repository has remotes, none
\* of them named 'origin'
_is_tracking_remote_branch_raises(repo) ==
    /\ ~_is_repo_head_detached(repo)
    /\ repo.remotes # {}
    /\ remote_raises(repo)

_is_tracking_remote_branch(repo) ==
    IF _is_repo_head_detached(repo) THEN FALSE
    ELSE IF repo.remotes = {} THEN FALSE
    ELSE IF remote(repo) = NoRemote THEN FALSE
    ELSE LET branch_name == repo.active
             remote_branch_name == RemoteRef(remote(repo).name, branch_name)
         IN  IsSubstring(branch_name \o <<"...">> \o remote_branch_name,
                         status_sb(repo))

(***************************************************************************)
(* Outcome of one per-repository action.                                   *)
(*   reason : the skip reason, "NONE" when the action went on to its       *)
(*            command, "RAISED" when an exception ended it before any      *)
(*            decision;                                                    *)
(*   error  : an exception left the action;                                *)
(*   cmds   : the version-control / external commands issued, in order;    *)
(*   lines  : the report lines printed by the state check;                 *)
(*   refs, local, origin : the references and the two commit sets the      *)
(*            state check read for its report;                             *)
(*   caught : _try_run caught the exception and printed its message.       *)
(***************************************************************************)
SkipReasons ==
    {"NONE", "DIRTY", "DETACHED_HEAD", "NOT_TRACKING", "NO_REMOTE_BRANCH",
     "NO_MATCHING_BRANCH"}

Outcome(reason, error, cmds, lines) ==
    [reason |-> reason, error |-> error, cmds |-> cmds, lines |-> lines,
     refs |-> {}, local |-> {}, origin |-> {}, caught |-> FALSE]

Skip(reason) == Outcome(reason, FALSE, <<>>, <<>>)

Raised == Outcome("RAISED", TRUE, <<>>, <<>>)

\* a git command either returns or raises GitCommandError
RunGit(cmd) ==
    {Outcome("NONE", FALSE, <<cmd>>, <<>>), Outcome("NONE", TRUE, <<cmd>>, <<>>)}

(***************************************************************************)
(* _fetch_repo                                                             *)
(***************************************************************************)
\* mutant: the remote-branch test placed before the detached-HEAD test
_fetch_repo_remote_branch_first(repo, branch) ==
    IF remote_raises(repo) THEN {Raised}
    ELSE IF ~_has_remote_branch(_get_remote_name(repo), repo)
    THEN {Skip("NO_REMOTE_BRANCH")}
    ELSE IF _is_repo_head_detached(repo) THEN {Skip("DETACHED_HEAD")}
    ELSE RunGit([verb |-> "fetch",
                 args |-> <<<<"origin">>, Or(branch, repo.active)>>])

_fetch_repo(repo, branch) ==
    IF _is_repo_head_detached(repo) THEN {Skip("DETACHED_HEAD")}
    ELSE IF remote_raises(repo) THEN {Raised}
    ELSE LET remote_name == _get_remote_name(repo)
         IN  IF ~_has_remote_branch(remote_name, repo)
             THEN {Skip("NO_REMOTE_BRANCH")}
             ELSE LET target_branch == Or(branch, repo.active)
                  IN  RunGit([verb |-> "fetch",
                              args |-> <<<<"origin">>, target_branch>>])

(***************************************************************************)
(* _pull_repo                                                              *)
(***************************************************************************)
\* mutant: the detached-HEAD test placed before the dirty test
_pull_repo_detached_first(repo) ==
    IF _is_repo_head_detached(repo) THEN {Skip("DETACHED_HEAD")}
    ELSE IF is_dirty(repo) THEN {Skip("DIRTY")}
    ELSE IF _is_tracking_remote_branch_raises(repo) THEN {Raised}
    ELSE IF ~_is_tracking_remote_branch(repo) THEN {Skip("NOT_TRACKING")}
    ELSE IF ~_has_remote_branch(_get_remote_name(repo), repo)
    THEN {Skip("NO_REMOTE_BRANCH")}
    ELSE RunGit([verb |-> "pull", args |-> <<>>])

\* mutant: the `return` after the DIRTY warning is missing
_pull_repo_missing_return(repo) ==
    IF is_dirty(repo) /\ ~_is_repo_head_detached(repo)
    THEN {[o EXCEPT !.reason = "DIRTY"]
             : o \in RunGit([verb |-> "pull", args |-> <<>>])}
    ELSE IF is_dirty(repo) THEN {Skip("DIRTY")}
    ELSE IF _is_repo_head_detached(repo) THEN {Skip("DETACHED_HEAD")}
    ELSE IF _is_tracking_remote_branch_raises(repo) THEN {Raised}
    ELSE IF ~_is_tracking_remote_branch(repo) THEN {Skip("NOT_TRACKING")}
    ELSE IF ~_has_remote_branch(_get_remote_name(repo), repo)
    THEN {Skip("NO_REMOTE_BRANCH")}
    ELSE RunGit([verb |-> "pull", args |-> <<>>])

_pull_repo(repo) ==
    IF is_dirty(repo) THEN {Skip("DIRTY")}
    ELSE IF _is_repo_head_detached(repo) THEN {Skip("DETACHED_HEAD")}
    ELSE IF _is_tracking_remote_branch_raises(repo) THEN {Raised}
    ELSE IF ~_is_tracking_remote_branch(repo) THEN {Skip("NOT_TRACKING")}
    ELSE IF remote_raises(repo) THEN {Raised}
    ELSE LET remote_name == _get_remote_name(repo)
         IN  IF ~_has_remote_branch(remote_name, repo)
             THEN {Skip("NO_REMOTE_BRANCH")}
             ELSE RunGit([verb |-> "pull", args |-> <<>>])

(***************************************************************************)
(* _check_is_repo_up_to_date                                               *)
(***************************************************************************)
ReportLine(who, text, n) == [who |-> who, text |-> text, n |-> n]

\* mutant: the tests `> 0` written `>= 0`
_report_lines_nonstrict(behind_commit_count, forward_commit_count) ==
    IF behind_commit_count = 0 /\ forward_commit_count = 0
    THEN <<ReportLine("Origin", "up-to-date", 0)>>
    ELSE <<ReportLine("Origin", "ahead by", behind_commit_count),
           ReportLine("Local branch", "ahead by", forward_commit_count)>>

\* lines 565-580: the report printed from the two commit counts
_report_lines(behind_commit_count, forward_commit_count) ==
    IF behind_commit_count = 0 /\ forward_commit_count = 0
    THEN <<ReportLine("Origin", "up-to-date", 0)>>
    ELSE (IF behind_commit_count > 0
          THEN <<ReportLine("Origin", "ahead by", behind_commit_count)>>
          ELSE <<>>)
         \o
         (IF forward_commit_count > 0
          THEN <<ReportLine("Local branch", "ahead by", forward_commit_count)>>
          ELSE <<>>)

\* mutant: the range read the other way round
iter_commits_reversed(from_a, to_b) == from_a \ to_b

\* repo.iter_commits('{a}..{b}'): the commits reachable from b and not from a
iter_commits(from_a, to_b) == to_b \ from_a

\* the references `git remote update` may add: refs of origin not yet known
Fetchable(repo) ==
    SUBSET ({RemoteRef(GitPythonDefaultRemote, b) : b \in Branches} \ repo.refs)

\* the histories of two branches: a common root commit, k commits only the
\* local branch has, j commits only the remote branch has
Histories ==
    {[local |-> {0} \cup (1..k),
      origin |-> {0} \cup ((MaxCommits + 1)..(MaxCommits + j))]
        : k \in 0..MaxCommits, j \in 0..MaxCommits}

update_cmd == [verb |-> "remote update", args |-> <<>>]

\* lines 556-580: the two commit ranges between the target branch and the
\* remote branch, their counts, the report
_count_and_report(target_history, remote_history) ==
    LET commits_ahead == iter_commits(remote_history, target_history)
        commits_behind == iter_commits(target_history, remote_history)
        behind_commit_count == Cardinality(commits_behind)
        forward_commit_count == Cardinality(commits_ahead)
    IN  _report_lines(behind_commit_count, forward_commit_count)

\* lines 554-580, once the repository was not skipped: the remote update,
\* the two commit ranges, the report
_check_report(repo, target_branch, remote_branch) ==
    {Outcome("NONE", TRUE, <<update_cmd>>, <<>>)}
    \cup
    UNION {
        LET refs == repo.refs \cup fetched
        IN  IF remote_branch \notin refs \/ target_branch \notin refs
            \* git rev-list fails on an unknown revision: GitCommandError
            THEN {[Outcome("NONE", TRUE, <<update_cmd>>, <<>>)
                      EXCEPT !.refs = refs]}
            ELSE {[Outcome("NONE", FALSE, <<update_cmd>>,
                           _count_and_report(h.local, h.origin))
                      EXCEPT !.refs = refs, !.local = h.local,
                             !.origin = h.origin]
                  : h \in Histories}
        : fetched \in Fetchable(repo)}

_check_is_repo_up_to_date(repo, branch) ==
    IF _is_repo_head_detached(repo) THEN {Skip("DETACHED_HEAD")}
    ELSE IF remote_raises(repo) THEN {Raised}
    ELSE LET remote_name == _get_remote_name(repo)
             target_branch == Or(branch, repo.active)
         IN  IF ~_has_branch(repo, target_branch)
             THEN {Skip("NO_MATCHING_BRANCH")}
             ELSE LET remote_branch == RemoteRef(remote_name, target_branch)
                  IN  IF ~_has_remote_branch(remote_name, repo)
                      THEN {Skip("NO_REMOTE_BRANCH")}
                      ELSE _check_report(repo, target_branch, remote_branch)

(***************************************************************************)
(* The directory tree and discovery.                                       *)
(* A path is the current directory, the directory named by --repo, or the  *)
(* i-th entry of the listing of the current directory.  `marker` is the    *)
(* marker of the task's mode: the .git directory for the git tasks,        *)
(* docker-compose.yml for docker, pom.xml for mvn.                         *)
(***************************************************************************)
\* os.getcwd()
current_directory == 0

\* os.path.join(current_directory, repo) for a named repository
named_repo_directory == -1

DirEntries == [hidden : BOOLEAN, marker : BOOLEAN]

Listings == UNION {[1..n -> DirEntries] : n \in 0..MaxDirs}

FileSystems == [root : [marker : BOOLEAN], dirs : Listings]

HasMarker(fsys, path) ==
    IF path = current_directory THEN fsys.root.marker
    ELSE path \in 1..Len(fsys.dirs) /\ fsys.dirs[path].marker

_has_git_repo(fsys, path) == HasMarker(fsys, path)

_has_docker_compose_file(fsys, path) == HasMarker(fsys, path)

_has_mvn_file(fsys, path) == HasMarker(fsys, path)

RECURSIVE WalkFrom(_, _)
\* the loop over sub_directories, from entry i on
WalkFrom(fsys, i) ==
    IF i > Len(fsys.dirs) THEN <<>>
    ELSE IF fsys.dirs[i].hidden THEN WalkFrom(fsys, i + 1)
    ELSE IF HasMarker(fsys, i) THEN <<i>> \o WalkFrom(fsys, i + 1)
    ELSE WalkFrom(fsys, i + 1)

RECURSIVE WalkHiddenToo(_, _)
WalkHiddenToo(fsys, i) ==
    IF i > Len(fsys.dirs) THEN <<>>
    ELSE IF HasMarker(fsys, i) THEN <<i>> \o WalkHiddenToo(fsys, i + 1)
    ELSE WalkHiddenToo(fsys, i + 1)

\* mutant: hidden directories are not skipped
_get_git_repo_paths_hidden_too(fsys) == WalkHiddenToo(fsys, 1)

_get_git_repo_paths(fsys) == WalkFrom(fsys, 1)

_get_repo_paths_containing_dockers(fsys) == WalkFrom(fsys, 1)

_get_repo_paths_containing_maven_project(fsys) == WalkFrom(fsys, 1)

(***************************************************************************)
(* Tasks and their parameters                                              *)
(***************************************************************************)
\* --branch: not given, or the name of a branch
BranchParams == {None} \cup Branches

Tasks ==
    [name : {"fetch_all", "check_repo_states"}, branch : BranchParams,
     flags : {{}}]
    \cup [name : {"pull_all"}, branch : {None}, flags : {{}}]
    \cup [name : {"docker"}, branch : {None},
          flags : SUBSET {"up", "down", "restart"}]
    \cup [name : {"mvn"}, branch : {None},
          flags : SUBSET {"run", "install", "build", "build_all", "repo"}]

Phase(verb, runner, paths) == [verb |-> verb, runner |-> runner, paths |-> paths]

NoRepo ==
    [detached |-> TRUE, dirty |-> FALSE, active |-> None, remotes |-> {},
     upstream |-> NoUpstream, refs |-> {}]

\* cur: the iteration in progress or last completed.  state is "none"
\* before the first Repo(path), "opened" once the handle exists, "acted"
\* once the action returned or raised.
NoCur ==
    [verb |-> "none", path |-> current_directory, state |-> "none",
     repo |-> NoRepo, out |-> Skip("NONE")]

Init ==
    /\ task \in Tasks
    /\ fs \in FileSystems
    /\ pc = "start"
    /\ phases = <<>>
    /\ idx = 1
    /\ handed = <<>>
    /\ attempted = <<>>
    /\ cur = NoCur
    /\ cmdCount = 0
    /\ msgs = {}

\* the task returns without entering a batch
Return(msg) ==
    /\ pc' = "done"
    /\ msgs' = msgs \cup msg
    /\ UNCHANGED <<task, fs, phases, idx, handed, attempted, cur, cmdCount>>

Enter(phs) ==
    /\ phases' = phs
    /\ pc' = IF phs = <<>> THEN "done" ELSE "open"
    /\ UNCHANGED <<task, fs, idx, handed, attempted, cur, cmdCount, msgs>>

\* lines 94-102, 117-126, 142-153: discovery, then the batch over the
\* sub-directories or the action on the current directory
GitTask(verb) ==
    LET git_repo_dirs == _get_git_repo_paths(fs)
    IN  IF git_repo_dirs = <<>>
        THEN \* _run_action_if_is_repo
             IF _has_git_repo(fs, current_directory)
             THEN Enter(<<Phase(verb, "if_is_repo", <<current_directory>>)>>)
             ELSE Return({"No GIT repos found"})
        ELSE Enter(<<Phase(verb, "for_each", git_repo_dirs)>>)

fetch_all == pc = "start" /\ task.name = "fetch_all" /\ GitTask("fetch")

pull_all == pc = "start" /\ task.name = "pull_all" /\ GitTask("pull")

check_repo_states ==
    pc = "start" /\ task.name = "check_repo_states" /\ GitTask("check")

\* the batches of the flags that are set, in the order the task runs them
FlagPhases(order, flags, paths) ==
    LET F[i \in 0..Len(order)] ==
            IF i = 0 THEN <<>>
            ELSE IF order[i] \in flags
                 THEN Append(F[i - 1], Phase(order[i], "for_each", paths))
                 ELSE F[i - 1]
    IN  F[Len(order)]

docker ==
    /\ pc = "start" /\ task.name = "docker"
    /\ IF task.flags = {}
       THEN Return({"Add at least one action as parameter"})
       ELSE LET found == _get_repo_paths_containing_dockers(fs)
            IN  IF found = <<>>
                     /\ ~_has_docker_compose_file(fs, current_directory)
                THEN Return({"No docker repos found"})
                ELSE LET git_repo_dirs ==
                             IF found = <<>> THEN <<current_directory>>
                             ELSE found
                     IN  Enter(FlagPhases(<<"down", "up", "restart">>,
                                          task.flags, git_repo_dirs))

\* lines 697-709: the batch of --build-all, empty when nothing is found
_build_all_mvn_repos ==
    LET found == _get_repo_paths_containing_maven_project(fs)
    IN  IF found = <<>>
        THEN IF _has_mvn_file(fs, current_directory)
             THEN <<Phase("build", "for_each", <<current_directory>>)>>
             ELSE <<>>
        ELSE <<Phase("build", "for_each", found)>>

mvn ==
    /\ pc = "start" /\ task.name = "mvn"
    /\ LET run == "run" \in task.flags
           install == "install" \in task.flags
           build == "build" \in task.flags
           build_all == "build_all" \in task.flags
           repo == "repo" \in task.flags
       IN  IF ~repo /\ ~build_all
           THEN Return({"target repository must be defined"})
           ELSE IF ~build /\ ~build_all /\ ~install /\ ~run
           THEN Return({"Add at least one action as parameter"})
           ELSE LET repo_dir == IF repo THEN named_repo_directory
                                ELSE current_directory
                    single(verb) == <<Phase(verb, "direct", <<repo_dir>>)>>
                IN  Enter((IF build_all THEN _build_all_mvn_repos
                           ELSE IF build THEN single("build")
                           ELSE <<>>)
                          \o (IF install THEN single("install") ELSE <<>>)
                          \o (IF run THEN single("run") ELSE <<>>))

(***************************************************************************)
(* The per-repository step                                                 *)
(***************************************************************************)
\* lines 598-611: invoke's run(cmd, warn=True) never raises; the status
\* line tells whether the command failed
_execute_cmd_in_repo(cmd) ==
    {Outcome("NONE", FALSE, <<cmd>>, <<ReportLine(cmd.verb, status, 0)>>)
        : status \in {"completed", "failed"}}

ExternalCmd(verb, repo_dir) ==
    IF verb \in {"down", "up", "restart"}
    THEN [verb |-> "docker-compose " \o verb, args |-> <<repo_dir>>]
    ELSE [verb |-> "mvn " \o verb, args |-> <<repo_dir>>]

_try_run(out) == [out EXCEPT !.caught = out.error]

\* the lambda the task hands to the runner, applied to an opened repository:
\* the pairs of the repository state read and the outcome
PerRepo(verb, branch, repo_dir) ==
    IF verb = "fetch"
    THEN UNION {{<<r, o>> : o \in _fetch_repo(r, branch)} : r \in RepoStates}
    ELSE IF verb = "pull"
    THEN UNION {{<<r, o>> : o \in _pull_repo(r)} : r \in RepoStates}
    ELSE IF verb = "check"
    THEN UNION {{<<r, o>> : o \in _check_is_repo_up_to_date(r, branch)}
                   : r \in RepoStates}
    ELSE {<<NoRepo, o>> : o \in _execute_cmd_in_repo(ExternalCmd(verb, repo_dir))}

\* Repo(path), at lines 585, 591 and 599: the handle of the repository the
\* iteration works on, or an exception that nothing catches and that ends
\* the invocation
Repo ==
    /\ pc = "open"
    /\ LET ph == Head(phases)
       IN  /\ handed' = IF ph.runner = "for_each" /\ idx = 1
                        THEN handed \o ph.paths ELSE handed
           /\ \/ pc' = "crashed" /\ UNCHANGED cur
              \/ /\ pc' = "act"
                 /\ cur' = [NoCur EXCEPT !.verb = ph.verb, !.path = ph.paths[idx],
                                         !.state = "opened"]
    /\ UNCHANGED <<task, fs, phases, idx, attempted, cmdCount, msgs>>

\* the loop moves to the next path, the task to its next batch
Advance ==
    IF idx < Len(Head(phases).paths)
    THEN idx' = idx + 1 /\ pc' = "open" /\ UNCHANGED phases
    ELSE /\ idx' = 1
         /\ phases' = Tail(phases)
         /\ pc' = IF Tail(phases) = <<>> THEN "done" ELSE "open"

Acted(res, tried) ==
    /\ cur' = [cur EXCEPT !.repo = res[1], !.state = "acted",
                          !.out = IF tried THEN _try_run(res[2]) ELSE res[2]]
    /\ cmdCount' = cmdCount + Len(res[2].cmds)
    /\ Advance
    /\ UNCHANGED <<task, fs, handed, msgs>>

\* line 586: _try_run(lambda: func(repo_dir, repo))
_run_action_for_each_repo ==
    /\ pc = "act" /\ Head(phases).runner = "for_each"
    /\ \E res \in PerRepo(cur.verb, task.branch, cur.path) : Acted(res, TRUE)
    /\ attempted' = Append(attempted, cur.path)

\* line 592: _try_run(lambda: action_func(dir_path, repo))
_run_action_if_is_repo ==
    /\ pc = "act" /\ Head(phases).runner = "if_is_repo"
    /\ \E res \in PerRepo(cur.verb, task.branch, cur.path) : Acted(res, TRUE)
    /\ UNCHANGED attempted

\* lines 386, 389, 401: a single-repository maven action, called by the task
\* itself, outside _try_run
mvn_single ==
    /\ pc = "act" /\ Head(phases).runner = "direct"
    /\ \E res \in PerRepo(cur.verb, task.branch, cur.path) : Acted(res, FALSE)
    /\ UNCHANGED attempted

Next ==
    \/ fetch_all
    \/ pull_all
    \/ check_repo_states
    \/ docker
    \/ mvn
    \/ Repo
    \/ _run_action_for_each_repo
    \/ _run_action_if_is_repo
    \/ mvn_single

Spec == Init /\ [][Next]_vars

(***************************************************************************)
(* Properties                                                              *)
(***************************************************************************)
Terminated == pc \in {"done", "crashed"}

\* the action of `verb` has run on the current repository
ActedOn(verb) == cur.state = "acted" /\ cur.verb = verb

Issued(verb) == \E i \in 1..Len(cur.out.cmds) : cur.out.cmds[i].verb = verb

OriginRefOf(branch) == RemoteRef(GitPythonDefaultRemote, branch)

\* C1: every path of a list handed to the batch runner gets its action
\* attempted exactly once, in list order: when the invocation has ended, the
\* paths attempted are the paths handed, whatever error a repository raised
\* (opening its handle included).
C1_EveryHandedPathAttempted == Terminated => attempted = handed

\* C2: pull skips every dirty repository with reason DIRTY and issues no
\* command, whatever the rest of its state is.
C2_PullDirtyIsSkippedAsDirty ==
    (ActedOn("pull") /\ cur.repo.dirty)
        => /\ cur.out.reason = "DIRTY"
           /\ cur.out.cmds = <<>>
           /\ ~cur.out.error

\* C2 witness: a dirty repository that pull would otherwise update (attached,
\* tracking origin, remote reference present) was skipped as DIRTY.
C2_Witness ==
    /\ ActedOn("pull") /\ cur.repo.dirty /\ ~cur.repo.detached
    /\ cur.repo.upstream =
           [remote |-> GitPythonDefaultRemote, branch |-> cur.repo.active]
    /\ OriginRefOf(cur.repo.active) \in cur.repo.refs
    /\ cur.out.reason = "DIRTY"

\* C3: pull on a clean repository: detached gives DETACHED_HEAD, else not
\* tracking an upstream gives NOT_TRACKING, else no remote branch reference
\* gives NO_REMOTE_BRANCH, else NONE; and pull is issued exactly for the
\* clean, attached, tracking repositories whose remote reference exists.
\* Stated on the repositories whose tracking state is beyond dispute: no
\* upstream at all, or the upstream origin/<active branch>.
C3_PullRuleOrder ==
    (ActedOn("pull") /\ ~cur.repo.dirty)
        => LET r == cur.repo
               tracksOrigin ==
                   r.upstream = [remote |-> GitPythonDefaultRemote,
                                 branch |-> r.active]
               hasRemoteRef == OriginRefOf(r.active) \in r.refs
           IN  /\ r.detached => cur.out.reason = "DETACHED_HEAD"
               /\ (~r.detached /\ r.upstream = NoUpstream)
                     => cur.out.reason = "NOT_TRACKING"
               /\ (~r.detached /\ tracksOrigin /\ ~hasRemoteRef)
                     => cur.out.reason = "NO_REMOTE_BRANCH"
               /\ (~r.detached /\ tracksOrigin /\ hasRemoteRef)
                     => cur.out.reason = "NONE"
               /\ Issued("pull") <=> cur.out.reason = "NONE"
               /\ Issued("pull") => (~r.detached /\ r.upstream # NoUpstream
                                        /\ hasRemoteRef)

\* C4: fetch: detached gives DETACHED_HEAD, else no remote reference matching
\* the active branch gives NO_REMOTE_BRANCH, else NONE; dirtiness and tracking
\* play no part; fetch is issued exactly when the outcome is NONE.
C4_FetchRuleOrder ==
    ActedOn("fetch")
        => LET r == cur.repo
           IN  /\ cur.out.reason =
                     (IF r.detached THEN "DETACHED_HEAD"
                      ELSE IF OriginRefOf(r.active) \notin r.refs
                           THEN "NO_REMOTE_BRANCH"
                      ELSE "NONE")
               /\ Issued("fetch") <=> cur.out.reason = "NONE"

\* C5: check: detached gives DETACHED_HEAD, else no reference matching the
\* target branch (the override, or the active branch) gives
\* NO_MATCHING_BRANCH, else no remote branch reference gives
\* NO_REMOTE_BRANCH, else NONE with the report; exactly one of these outcomes
\* per repository.  The remote reference is taken as absent when neither
\* origin/<active> nor origin/<target> exists, as present when both do.
C5_CheckRuleOrder ==
    ActedOn("check")
        => LET r == cur.repo
               target == Or(task.branch, r.active)
               noRemoteRef == /\ OriginRefOf(r.active) \notin r.refs
                              /\ OriginRefOf(target) \notin r.refs
               remoteRef == /\ OriginRefOf(r.active) \in r.refs
                            /\ OriginRefOf(target) \in r.refs
           IN  /\ cur.out.reason \in SkipReasons
               /\ r.detached => cur.out.reason = "DETACHED_HEAD"
               /\ (~r.detached /\ target \notin r.refs)
                     => cur.out.reason = "NO_MATCHING_BRANCH"
               /\ (~r.detached /\ target \in r.refs /\ noRemoteRef)
                     => cur.out.reason = "NO_REMOTE_BRANCH"
               /\ (~r.detached /\ target \in r.refs /\ remoteRef)
                     => cur.out.reason = "NONE"
               /\ cur.out.lines # <<>> => cur.out.reason = "NONE"

\* C6 as stated: fetch, pull and check each skip every detached-HEAD
\* repository with reason DETACHED_HEAD.
C6_DetachedAlwaysSkippedAsDetached ==
    (cur.state = "acted" /\ cur.verb \in {"fetch", "pull", "check"}
        /\ cur.repo.detached)
        => cur.out.reason = "DETACHED_HEAD"

\* C6 amended: fetch and check skip every detached-HEAD repository with
\* reason DETACHED_HEAD; pull does so when the working tree is clean and
\* skips with reason DIRTY when it is dirty.  No command is issued.
C6_DetachedIsSkipped ==
    (cur.state = "acted" /\ cur.verb \in {"fetch", "pull", "check"}
        /\ cur.repo.detached)
        => /\ cur.out.reason =
                 (IF cur.verb = "pull" /\ cur.repo.dirty THEN "DIRTY"
                  ELSE "DETACHED_HEAD")
           /\ cur.out.cmds = <<>>
           /\ ~cur.out.error

\* C6 witness: fetch met a detached repository that has the remote origin
\* and remote references, and skipped it as DETACHED_HEAD.
C6_Witness ==
    /\ ActedOn("fetch") /\ cur.repo.detached
    /\ GitPythonDefaultRemote \in cur.repo.remotes
    /\ \E b \in Branches : OriginRefOf(b) \in cur.repo.refs
    /\ cur.out.reason = "DETACHED_HEAD"

GitTaskNames == {"fetch_all", "pull_all", "check_repo_states"}

Range(seq) == {seq[i] : i \in 1..Len(seq)}

\* the non-hidden immediate sub-directories that contain the marker
VisibleMarked ==
    {i \in 1..Len(fs.dirs) : ~fs.dirs[i].hidden /\ fs.dirs[i].marker}

\* C7: the git tasks work only on paths that contain the .git marker: the
\* non-hidden marked sub-directories, or the current directory alone exactly
\* when there is none of those and the current directory is marked; when
\* neither, 'No GIT repos found' is reported and no action ever runs.
C7_DiscoveryTargets ==
    (task.name \in GitTaskNames /\ pc # "start")
        => LET rootOnly == VisibleMarked = {} /\ fs.root.marker
               nothing == VisibleMarked = {} /\ ~fs.root.marker
               targets == IF phases = <<>> THEN <<>> ELSE Head(phases).paths
           IN  /\ pc \in {"open", "act", "crashed"}
                     => /\ \A p \in Range(targets) : HasMarker(fs, p)
                        /\ Cardinality(Range(targets)) = Len(targets)
                        /\ Range(targets) = (IF rootOnly THEN {current_directory}
                                             ELSE VisibleMarked)
                        /\ rootOnly <=> targets = <<current_directory>>
               /\ nothing <=> (pc = "done" /\ cur.state = "none")
               /\ nothing => /\ "No GIT repos found" \in msgs
                             /\ cmdCount = 0
                             /\ attempted = <<>>

\* C7 witness: only a hidden sub-directory holds a .git directory, the
\* current directory holds one too, and the current directory is the target.
C7_Witness ==
    /\ task.name \in GitTaskNames /\ pc = "open"
    /\ VisibleMarked = {} /\ fs.root.marker
    /\ \E i \in 1..Len(fs.dirs) : fs.dirs[i].hidden /\ fs.dirs[i].marker
    /\ Head(phases).paths = <<current_directory>>

\* C8: when fetch, pull or check skips a repository, no version-control
\* command is issued for it and nothing raises; the loop stands at the next
\* path of the list, or the list is finished with every path attempted.
C8_SkipIssuesNoCommand ==
    (cur.state = "acted" /\ cur.verb \in {"fetch", "pull", "check"}
        /\ cur.out.reason \notin {"NONE", "RAISED"})
        => /\ cur.out.cmds = <<>>
           /\ ~cur.out.error
           /\ pc \in {"open", "crashed"}
                 => idx > 1 /\ Head(phases).paths[idx - 1] = cur.path
           /\ pc = "done" => attempted = handed

\* C8 witness: pull skipped the first repository of a list as DIRTY and the
\* loop stands at the second.
C8_Witness ==
    /\ ActedOn("pull") /\ cur.out.reason = "DIRTY" /\ cur.out.cmds = <<>>
    /\ pc = "open" /\ idx = 2 /\ cmdCount = 0

\* C9: the check report of a repository with both counts zero is exactly one
\* 'up-to-date' line; otherwise it has no 'up-to-date' line and an 'ahead by'
\* phrase per direction whose count is greater than zero, carrying that
\* count, and none for a direction whose count is zero.
C9_CheckReportLines ==
    (ActedOn("check") /\ cur.out.reason = "NONE" /\ ~cur.out.error)
        => LET lines == cur.out.lines
               localOnly == Cardinality(cur.out.local \ cur.out.origin)
               originOnly == Cardinality(cur.out.origin \ cur.out.local)
               upToDate == {i \in 1..Len(lines) : lines[i].text = "up-to-date"}
               phrases(who) == {i \in 1..Len(lines) :
                                   lines[i].text = "ahead by" /\ lines[i].who = who}
               count(who) == IF who = "Origin" THEN originOnly ELSE localOnly
           IN  IF localOnly = 0 /\ originOnly = 0
               THEN Len(lines) = 1 /\ Cardinality(upToDate) = 1
               ELSE /\ upToDate = {}
                    /\ \A who \in {"Origin", "Local branch"} :
                          /\ Cardinality(phrases(who))
                                = (IF count(who) > 0 THEN 1 ELSE 0)
                          /\ \A i \in phrases(who) : lines[i].n = count(who)

\* C9 witness: the local branch has two commits the remote branch lacks and
\* lacks none: the report is the single line of the local direction.
C9_Witness ==
    /\ ActedOn("check") /\ cur.out.reason = "NONE" /\ ~cur.out.error
    /\ Cardinality(cur.out.local \ cur.out.origin) = 2
    /\ cur.out.origin \subseteq cur.out.local
    /\ cur.out.lines = <<ReportLine("Local branch", "ahead by", 2)>>

\* C10: an invocation with no repository to work on, asked for a
\* single-repository install or run without --repo, runs no external command.
C10_NoWorkWithoutTarget ==
    (/\ task.name = "mvn"
     /\ "repo" \notin task.flags
     /\ task.flags \cap {"install", "run"} # {}
     /\ _get_repo_paths_containing_maven_project(fs) = <<>>
     /\ ~_has_mvn_file(fs, current_directory))
        => cmdCount = 0

\* C11: check skips every repository that has non-committed changes compared
\* to HEAD: for a dirty repository no remote update is issued and no report
\* line (ahead, behind or up-to-date) is printed.
C11_CheckSkipsDirty ==
    (ActedOn("check") /\ is_dirty(cur.repo))
        => /\ cur.out.cmds = <<>>
           /\ cur.out.lines = <<>>

\* the remote update of check was issued and raised: no reference was read
\* after it
RefreshFailed == cur.out.cmds # <<>> /\ cur.out.refs = {}

\* C12: check with a branch override, on an attached repository that has the
\* remote origin and a reference named as the override: when origin/<override>
\* is among the references, the repository is not skipped as
\* NO_REMOTE_BRANCH; when it is among them neither before nor after the
\* remote update, the repository is skipped as NO_REMOTE_BRANCH; whatever
\* reference origin/<checked-out branch> exists.
C12_RemoteBranchDecisionOnTarget ==
    (/\ ActedOn("check")
     /\ task.branch # None
     /\ ~cur.repo.detached
     /\ GitPythonDefaultRemote \in cur.repo.remotes
     /\ task.branch \in cur.repo.refs)
        => LET remote_branch == OriginRefOf(task.branch)
           IN  /\ remote_branch \in cur.repo.refs
                     => cur.out.reason # "NO_REMOTE_BRANCH"
               /\ (remote_branch \notin (cur.repo.refs \cup cur.out.refs)
                      /\ ~RefreshFailed)
                     => cur.out.reason = "NO_REMOTE_BRANCH"

\* C13: in check the remote update precedes the classification: a repository
\* skipped for its missing remote branch, or reported on, has had the remote
\* update issued for it first.
C13_RefreshBeforeClassification ==
    (ActedOn("check") /\ cur.out.reason \in {"NO_REMOTE_BRANCH", "NONE"})
        => Issued("remote update")

\* the report line with the two parties exchanged
SwapParties(line) ==
    IF line.text # "ahead by" THEN line
    ELSE [line EXCEPT !.who = IF line.who = "Origin" THEN "Local branch"
                                ELSE "Origin"]

\* C14: the report names the remote as ahead by N exactly when N > 0 commits
\* are reachable from the remote branch and not from the target branch, and
\* the local branch as ahead by M exactly when M > 0 commits are reachable
\* from the target branch and not from the remote branch; the report computed
\* with the two histories exchanged is this report with the two parties
\* exchanged.
C14_DirectionsLabelled ==
    (ActedOn("check") /\ cur.out.reason = "NONE" /\ ~cur.out.error)
        => LET N == Cardinality(cur.out.origin \ cur.out.local)
               M == Cardinality(cur.out.local \ cur.out.origin)
               ahead(who) == {l \in Range(cur.out.lines) :
                                 l.text = "ahead by" /\ l.who = who}
               swapped == _count_and_report(cur.out.origin, cur.out.local)
           IN  /\ ahead("Origin")
                     = (IF N > 0 THEN {ReportLine("Origin", "ahead by", N)}
                        ELSE {})
               /\ ahead("Local branch")
                     = (IF M > 0
                        THEN {ReportLine("Local branch", "ahead by", M)}
                        ELSE {})
               /\ Range(swapped)
                     = {SwapParties(l) : l \in Range(cur.out.lines)}

\* C14 witness: the remote branch has one commit the local branch lacks, the
\* local branch two the remote branch lacks: both directions are reported.
C14_Witness ==
    /\ ActedOn("check") /\ cur.out.reason = "NONE" /\ ~cur.out.error
    /\ Cardinality(cur.out.origin \ cur.out.local) = 1
    /\ Cardinality(cur.out.local \ cur.out.origin) = 2
    /\ cur.out.lines = <<ReportLine("Origin", "ahead by", 1),
                         ReportLine("Local branch", "ahead by", 2)>>

====
